---- MODULE Spec2Model ----
(***************************************************************************)
(* A model of google_drive_data_transfer.GoogleDriveDataTransfer: the      *)
(* facade over a remote file store (Google Drive through pydrive2) with    *)
(* its four operations list_files, upload_file, download_file and          *)
(* remove_file.                                                            *)
(*                                                                         *)
(* The remote store is the state.  Each entry carries the fields the       *)
(* facade reads or writes: title, parent, mimeType, createdDate, the       *)
(* trashed label, the sharedWithMe label and its content.  An entry's      *)
(* identifier is its index in `store`.  The local file system the upload   *)
(* reads from is a fixed environment (LocalFS); what a download writes is  *)
(* recorded in `last`, the record of the most recent call: its arguments,  *)
(* the query it sent, the listing it got back, the entry it acted on and   *)
(* how it ended.  `before` keeps the store as that call found it.          *)
(*                                                                         *)
(* Folder identifiers are drawn from Drive's identifier alphabet, so that  *)
(* the quoting in the query string "'<id>' in parents" is transparent and  *)
(* the query is modelled by its parsed form.                               *)
(***************************************************************************)
EXTENDS Naturals, Sequences, FiniteSets, TLC

VARIABLES
    store,   \* the remote store: entry identifier -> entry
    before,  \* the store as it was when the most recent call began
    last     \* the most recent call: arguments, query, listing, result

vars == <<store, before, last>>

(***************************************************************************)
(* Bounds of the model.                                                    *)
(***************************************************************************)
\* The most entries the store holds: upload_file of a name not yet in its
\* folder is not taken on a full store.
MaxEntries == 2

(***************************************************************************)
(* Values.                                                                 *)
(***************************************************************************)
\* Python's None, as the default of the optional parameters.
None == "<None>"

\* Python truthiness of an optional string parameter ("x if x else y").
Truthy(x) == x # None /\ x # ""

FileNames == {"a", "b"}
\* What a caller passes as drive_folder_id: nothing or an id; list_files is
\* also called with the empty string.
FolderArgs == {None, "F1"}
ListFolderArgs == FolderArgs \cup {""}

GDoc == "application/vnd.google-apps.document"
GSheet == "application/vnd.google-apps.spreadsheet"
GSlides == "application/vnd.google-apps.presentation"
Docx == "application/vnd.openxmlformats-officedocument.wordprocessingml.document"
Xlsx == "application/vnd.openxmlformats-officedocument.spreadsheetml.sheet"
Pptx == "application/vnd.openxmlformats-officedocument.presentationml.presentation"
\* The type Drive gives an uploaded file whose name has no known extension.
OctetStream == "application/octet-stream"

\* os.path.join for a relative file name.
OsPathJoin(data_dir, name) == data_dir \o "/" \o name

\* The local files upload_file can read: path -> content.  "cwd/b" is missing.
LocalFS == [p \in {"cwd/a"} |-> "ca"]

IdsOf(s) == 1..Len(s)

Entry(title, parent, mimeType, createdDate, shared) ==
    [title |-> title, parent |-> parent, mimeType |-> mimeType,
     createdDate |-> createdDate, trashed |-> FALSE, shared |-> shared,
     content |-> "c0"]

\* The entries a store may hold before the facade is constructed: every
\* native MIME type and a plain one, both names, both folders, an entry
\* created earlier than another of its name and two created together,
\* entries shared with the user.
SeedEntries ==
    { Entry("a", "root", GDoc,        1, FALSE),
      Entry("a", "root", GSheet,      2, FALSE),
      Entry("a", "root", GSlides,     2, TRUE),
      Entry("b", "F1",   OctetStream, 1, TRUE) }

\* The elements of a finite set, in some order.
RECURSIVE SetToSeq(_)
SetToSeq(S) ==
    IF S = {} THEN <<>>
    ELSE LET e == CHOOSE x \in S : TRUE
         IN <<e>> \o SetToSeq(S \ {e})

InitStores == {SetToSeq(S) : S \in {T \in SUBSET SeedEntries : Cardinality(T) <= MaxEntries}}

(***************************************************************************)
(* The remote service: pydrive2's ListFile(...).GetList(), Upload() and    *)
(* Trash() as the facade uses them.                                        *)
(***************************************************************************)
\* Whether entry e satisfies the parsed query q.
Matches(q, e) ==
    /\ (q.sharedWithMe => e.shared)
    /\ (q.inParents # None => e.parent = q.inParents)
    /\ e.trashed = q.trashed

\* The orders "createdDate desc" allows for the entries S: a latest one
\* first, then the rest likewise.  Entries with equal createdDate come in
\* either order.
RECURSIVE CreatedDateDesc(_)
CreatedDateDesc(S) ==
    IF S = {} THEN {<<>>}
    ELSE UNION {{<<i>> \o r : r \in CreatedDateDesc(S \ {i})} :
                  i \in {x \in S : \A y \in S :
                            store[x].createdDate >= store[y].createdDate}}

\* Every order of the entries S.
RECURSIVE AnyOrder(_)
AnyOrder(S) ==
    IF S = {} THEN {<<>>}
    ELSE UNION {{<<i>> \o r : r \in AnyOrder(S \ {i})} : i \in S}

\* The listings Drive may answer query q with: the matching entries in the
\* order q asks for.
DriveGetList(q) ==
    LET S == {i \in IdsOf(store) : Matches(q, store[i])}
    IN IF q.orderBy = "createdDate desc" THEN CreatedDateDesc(S) ELSE AnyOrder(S)

\* The creation time Drive stamps on an entry inserted now.
RECURSIVE MaxDate(_)
MaxDate(s) ==
    IF s = <<>> THEN 0
    ELSE LET m == MaxDate(Tail(s))
         IN IF Head(s).createdDate > m THEN Head(s).createdDate ELSE m

Now == MaxDate(store) + 1

(***************************************************************************)
(* list_files                                                              *)
(***************************************************************************)
\* ListQuery with "is not None" for the truthiness test: an empty folder
\* identifier is sent as it is.
ListQueryNoneOnly(drive_folder_id, shared_with_me) ==
    IF shared_with_me
    THEN [sharedWithMe |-> TRUE, inParents |-> None, trashed |-> FALSE,
          orderBy |-> "createdDate desc"]
    ELSE [sharedWithMe |-> FALSE,
          inParents |-> IF drive_folder_id # None THEN drive_folder_id ELSE "root",
          trashed |-> FALSE, orderBy |-> "createdDate desc"]

\* ListQuery with the folder filter kept in the shared-with-me query.
ListQueryBothFilters(drive_folder_id, shared_with_me) ==
    [sharedWithMe |-> shared_with_me,
     inParents |-> IF Truthy(drive_folder_id) THEN drive_folder_id ELSE "root",
     trashed |-> FALSE, orderBy |-> "createdDate desc"]

\* The query list_files sends.
ListQuery(drive_folder_id, shared_with_me) ==
    IF shared_with_me
    THEN [sharedWithMe |-> TRUE, inParents |-> None, trashed |-> FALSE,
          orderBy |-> "createdDate desc"]
    ELSE [sharedWithMe |-> FALSE,
          inParents |-> IF Truthy(drive_folder_id) THEN drive_folder_id ELSE "root",
          trashed |-> FALSE, orderBy |-> "createdDate desc"]

\* [f["title"] for f in file_list]
TitlesOf(file_list) == [i \in 1..Len(file_list) |-> store[file_list[i]].title]

\* What list_files returns for a listing: the entries or their titles.
ListResult(file_list, include_metadata) ==
    IF include_metadata THEN file_list ELSE TitlesOf(file_list)

\* FirstMatch without the break: the last entry with the title.
LastMatch(file_list, name) ==
    file_list[CHOOSE i \in 1..Len(file_list) :
                 /\ store[file_list[i]].title = name
                 /\ \A j \in (i + 1)..Len(file_list) : store[file_list[j]].title # name]

\* The first entry of the listing with the given title ("for ... break").
FirstMatch(file_list, name) ==
    file_list[CHOOSE i \in 1..Len(file_list) :
                 /\ store[file_list[i]].title = name
                 /\ \A j \in 1..(i - 1) : store[file_list[j]].title # name]

\* InListing looking at the head of the listing only.
InListingHeadOnly(file_list, name) ==
    /\ Len(file_list) > 0
    /\ store[file_list[1]].title = name

\* name in [f["title"] for f in file_list]
InListing(file_list, name) ==
    \E i \in 1..Len(file_list) : store[file_list[i]].title = name

\* The record of a call, with the fields an operation does not set.
Call(op) ==
    [op |-> op, outcome |-> "ok", file_name |-> None, folder_arg |-> None,
     shared_with_me |-> FALSE, include_metadata |-> TRUE,
     query |-> None, file_list |-> <<>>, returned |-> <<>>,
     target |-> 0, created |-> FALSE, fresh_run |-> FALSE,
     data_dir |-> None, remote_arg |-> None, local_arg |-> None,
     dest |-> None, mimetype |-> None, bytes |-> None]

list_files(drive_folder_id, shared_with_me, include_metadata) ==
    \E file_list \in DriveGetList(ListQuery(drive_folder_id, shared_with_me)) :
        /\ last' = [Call("list_files") EXCEPT
                      !.folder_arg = drive_folder_id,
                      !.shared_with_me = shared_with_me,
                      !.include_metadata = include_metadata,
                      !.query = ListQuery(drive_folder_id, shared_with_me),
                      !.file_list = file_list,
                      !.returned = ListResult(file_list, include_metadata)]
        /\ before' = store
        /\ UNCHANGED store

(***************************************************************************)
(* upload_file                                                             *)
(***************************************************************************)
\* What an entry without content holds.
NoContent == ""

\* CreateFile as a call that inserts the (empty) entry at once.
CreateFileInserts(s, title, parent) ==
    Append(s, [title |-> title, parent |-> parent, mimeType |-> OctetStream,
               createdDate |-> Now, trashed |-> FALSE, shared |-> FALSE,
               content |-> NoContent])

\* The store after drive.CreateFile({"title": ..., "parents": ...}): the call
\* builds the file object on the client and sends nothing.
CreateFile(s, title, parent) == s

\* UploadExisting that inserts a copy instead of updating the entry.
UploadExistingInserts(s, id, content) ==
    Append(s, [s[id] EXCEPT !.content = content, !.createdDate = Now])

\* SetContentFile(path) and Upload() on an entry of the listing: the entry's
\* content is replaced, nothing else.
UploadExisting(s, id, content) == [s EXCEPT ![id].content = content]

\* UploadNew that leaves out "parents": Drive puts the entry in the root.
UploadNewInRoot(s, title, parent, content) ==
    Append(s, [title |-> title, parent |-> "root", mimeType |-> OctetStream,
               createdDate |-> Now, trashed |-> FALSE, shared |-> FALSE,
               content |-> content])

\* The same on the object CreateFile made: Upload() inserts the entry.
UploadNew(s, title, parent, content) ==
    Append(s, [title |-> title, parent |-> parent, mimeType |-> OctetStream,
               createdDate |-> Now, trashed |-> FALSE, shared |-> FALSE,
               content |-> content])

\* remote_file_name if remote_file_name else file_name
RemoteName(file_name, remote_file_name) ==
    IF Truthy(remote_file_name) THEN remote_file_name ELSE file_name

\* Whether the call before this one was a successful upload of the same
\* name into the same folder, in a run of such uploads that began in a
\* folder without the name.
ContinuesRun(name, q) ==
    /\ last.op = "upload_file"
    /\ last.outcome = "ok"
    /\ last.fresh_run
    /\ RemoteName(last.file_name, last.remote_arg) = name
    /\ last.query = q

upload_file(file_name, data_dir, remote_file_name, drive_folder_id) ==
    \E file_list \in DriveGetList(ListQuery(drive_folder_id, FALSE)) :
        LET name == RemoteName(file_name, remote_file_name)
            folder == IF Truthy(drive_folder_id) THEN drive_folder_id ELSE "root"
            exists == InListing(file_list, name)
            path == OsPathJoin(data_dir, file_name)
            call == [Call("upload_file") EXCEPT
                       !.file_name = file_name,
                       !.remote_arg = remote_file_name,
                       !.folder_arg = drive_folder_id,
                       !.query = ListQuery(drive_folder_id, FALSE),
                       !.file_list = file_list,
                       !.data_dir = data_dir,
                       !.target = IF exists THEN FirstMatch(file_list, name) ELSE 0]
        IN /\ before' = store
           /\ IF exists
              THEN IF path \notin DOMAIN LocalFS
                   THEN \* SetContentFile raises: open() of a missing file
                        /\ last' = [call EXCEPT !.outcome = "OSError"]
                        /\ UNCHANGED store
                   ELSE /\ store' = UploadExisting(store, FirstMatch(file_list, name),
                                                   LocalFS[path])
                        /\ last' = [call EXCEPT
                                      !.fresh_run = ContinuesRun(name, call.query)]
              ELSE IF path \notin DOMAIN LocalFS
                   THEN /\ last' = [call EXCEPT !.outcome = "OSError"]
                        /\ store' = CreateFile(store, name, folder)
                   ELSE /\ Len(store) < MaxEntries
                        /\ store' = UploadNew(CreateFile(store, name, folder),
                                              name, folder, LocalFS[path])
                        /\ last' = [call EXCEPT !.created = TRUE,
                                                !.target = Len(store) + 1,
                                                !.fresh_run = TRUE]

(***************************************************************************)
(* download_file                                                           *)
(***************************************************************************)
\* The mimetypes table of download_file: native type -> export format.
ConvertTo(mimeType) ==
    CASE mimeType = GDoc -> Docx
      [] mimeType = GSheet -> Xlsx
      [] mimeType = GSlides -> Pptx
      [] OTHER -> None

\* FileSuffix with the spreadsheet and presentation suffixes exchanged.
FileSuffixSwapped(mimeType) ==
    CASE mimeType = GDoc -> ".docx"
      [] mimeType = GSheet -> ".pptx"
      [] mimeType = GSlides -> ".xlsx"
      [] OTHER -> ""

\* The same table's file_suffix column.
FileSuffix(mimeType) ==
    CASE mimeType = GDoc -> ".docx"
      [] mimeType = GSheet -> ".xlsx"
      [] mimeType = GSlides -> ".pptx"
      [] OTHER -> ""

\* What GetContentFile(path, mimetype=m) writes for an entry's content:
\* the export in format m, or the stored bytes when m is None.
GetContent(content, m) ==
    IF m = None THEN [format |-> "raw", data |-> content]
    ELSE [format |-> m, data |-> content]

download_file(file_name, data_dir, local_file_name, drive_folder_id, shared_with_me) ==
    \E file_list \in DriveGetList(ListQuery(drive_folder_id, shared_with_me)) :
        LET base == IF Truthy(local_file_name) THEN local_file_name ELSE file_name
            call == [Call("download_file") EXCEPT
                       !.file_name = file_name,
                       !.folder_arg = drive_folder_id,
                       !.shared_with_me = shared_with_me,
                       !.query = ListQuery(drive_folder_id, shared_with_me),
                       !.file_list = file_list,
                       !.data_dir = data_dir,
                       !.local_arg = local_file_name]
        IN /\ before' = store
           /\ UNCHANGED store
           /\ IF ~InListing(file_list, file_name)
              THEN last' = [call EXCEPT !.outcome = "FileNotFoundError"]
              ELSE LET id == FirstMatch(file_list, file_name)
                       mimetype == ConvertTo(store[id].mimeType)
                       local == base \o FileSuffix(store[id].mimeType)
                   IN last' = [call EXCEPT
                                 !.target = id,
                                 !.mimetype = mimetype,
                                 !.dest = OsPathJoin(data_dir, local),
                                 !.bytes = GetContent(store[id].content, mimetype)]

(***************************************************************************)
(* remove_file                                                             *)
(***************************************************************************)
\* Delete() in place of Trash(): the entry is gone from the store.
TrashDeletes(s, id) == SubSeq(s, 1, id - 1) \o SubSeq(s, id + 1, Len(s))

\* Trash() on every entry of the folder with the title, not the one found.
TrashAllNamed(s, id) ==
    [i \in IdsOf(s) |->
        IF s[i].title = s[id].title /\ s[i].parent = s[id].parent
        THEN [s[i] EXCEPT !.trashed = TRUE]
        ELSE s[i]]

\* file_of_interest.Trash()
Trash(s, id) == [s EXCEPT ![id].trashed = TRUE]

remove_file(file_name, drive_folder_id) ==
    \E file_list \in DriveGetList(ListQuery(drive_folder_id, FALSE)) :
        LET call == [Call("remove_file") EXCEPT
                       !.file_name = file_name,
                       !.folder_arg = drive_folder_id,
                       !.query = ListQuery(drive_folder_id, FALSE),
                       !.file_list = file_list]
        IN /\ before' = store
           /\ IF ~InListing(file_list, file_name)
              THEN /\ last' = [call EXCEPT !.outcome = "FileNotFoundError"]
                   /\ UNCHANGED store
              ELSE /\ store' = Trash(store, FirstMatch(file_list, file_name))
                   /\ last' = [call EXCEPT !.target = FirstMatch(file_list, file_name)]

(***************************************************************************)
(* The specification.                                                      *)
(***************************************************************************)
\* What callers pass.
UploadNames == {"a", "b"}
RemoteNameArgs == {None, "b"}
LocalNameArgs == {None, "x"}
UploadDirs == {"cwd"}
DownloadDirs == {"cwd", "out"}

Init ==
    /\ store \in InitStores
    /\ before = store
    /\ last = Call("init")

Next ==
    \/ \E f \in ListFolderArgs, sh \in BOOLEAN, meta \in BOOLEAN : list_files(f, sh, meta)
    \/ \E n \in UploadNames, d \in UploadDirs, r \in RemoteNameArgs, f \in FolderArgs :
          upload_file(n, d, r, f)
    \/ \E n \in FileNames, d \in DownloadDirs, l \in LocalNameArgs, f \in FolderArgs,
          sh \in BOOLEAN :
          download_file(n, d, l, f, sh)
    \/ \E n \in FileNames, f \in FolderArgs : remove_file(n, f)

Spec == Init /\ [][Next]_vars

(***************************************************************************)
(* The properties.  They are stated over the store a call found (before),  *)
(* the store it left (store) and the record of the call (last), in the     *)
(* words of the specification rather than with the operators above.        *)
(***************************************************************************)
\* The folder a call aims at: "root" when no folder identifier is given.
FolderOfArg(arg) == IF arg = None \/ arg = "" THEN "root" ELSE arg

\* The remote name an upload asks for.
NameOfUpload(c) ==
    IF c.remote_arg = None \/ c.remote_arg = "" THEN c.file_name ELSE c.remote_arg

\* The local name a download asks for, before any suffix.
LocalNameOfDownload(c) ==
    IF c.local_arg = None \/ c.local_arg = "" THEN c.file_name ELSE c.local_arg

\* The non-trashed entries of store s named n in folder f.
NamedIn(s, n, f) ==
    {i \in IdsOf(s) : s[i].title = n /\ s[i].parent = f /\ ~s[i].trashed}

\* The non-trashed children of folder f.
ChildrenOf(s, f) == {i \in IdsOf(s) : s[i].parent = f /\ ~s[i].trashed}

\* The non-trashed entries shared with the user.
SharedIn(s) == {i \in IdsOf(s) : s[i].shared /\ ~s[i].trashed}

\* The entries the listing of call c is to hold.
ScopeOf(c) ==
    IF c.shared_with_me THEN SharedIn(before)
    ELSE ChildrenOf(before, FolderOfArg(c.folder_arg))

\* The name call c looks for.
NameOf(c) == IF c.op = "upload_file" THEN NameOfUpload(c) ELSE c.file_name

\* The entries of the scope of call c with the name it looks for.
Candidates(c) == {i \in ScopeOf(c) : before[i].title = NameOf(c)}

\* The elements of a sequence.
Range(seq) == {seq[k] : k \in 1..Len(seq)}

UploadOk == last.op = "upload_file" /\ last.outcome = "ok"

\* C1: a successful upload of a name that no non-trashed entry of the target
\* folder has creates exactly one entry, with that name, that parent and the
\* local file's content, and changes no other entry; the folder then holds
\* exactly one non-trashed entry of the name.
C1_UploadAbsentCreatesOne ==
    (UploadOk /\ NamedIn(before, NameOfUpload(last), FolderOfArg(last.folder_arg)) = {})
    => /\ Len(store) = Len(before) + 1
       /\ \A i \in IdsOf(before) : store[i] = before[i]
       /\ store[Len(store)].title = NameOfUpload(last)
       /\ store[Len(store)].parent = FolderOfArg(last.folder_arg)
       /\ ~store[Len(store)].trashed
       /\ store[Len(store)].content = LocalFS[last.data_dir \o "/" \o last.file_name]
       /\ Cardinality(NamedIn(store, NameOfUpload(last),
                              FolderOfArg(last.folder_arg))) = 1

\* An upload into folder F1 under a remote name "b" given apart from the
\* local name, while a trashed entry of that name lies in the folder.
C1_Witness ==
    /\ UploadOk
    /\ last.remote_arg = "b"
    /\ last.folder_arg = "F1"
    /\ NamedIn(before, "b", "F1") = {}
    /\ \E i \in IdsOf(before) :
          before[i].title = "b" /\ before[i].parent = "F1" /\ before[i].trashed
    /\ Len(store) = Len(before) + 1

\* C2: a successful upload of a name present in the target folder creates no
\* entry: the identifiers are those of before, one entry of that name keeps
\* its identifier and gets the local file's content, nothing else changes;
\* and after a run of successful uploads of one name into one folder that
\* began without the name, the folder holds exactly one such entry.
C2_UploadPresentOverwrites ==
    /\ (UploadOk /\ NamedIn(before, NameOfUpload(last), FolderOfArg(last.folder_arg)) # {})
       => /\ IdsOf(store) = IdsOf(before)
          /\ last.target \in NamedIn(before, NameOfUpload(last),
                                     FolderOfArg(last.folder_arg))
          /\ store = [before EXCEPT ![last.target].content =
                         LocalFS[last.data_dir \o "/" \o last.file_name]]
    /\ (UploadOk /\ last.fresh_run)
       => Cardinality(NamedIn(store, NameOfUpload(last),
                              FolderOfArg(last.folder_arg))) = 1

\* The second upload of a run: the name is there, and is overwritten.
C2_Witness ==
    /\ UploadOk
    /\ last.fresh_run
    /\ ~last.created
    /\ IdsOf(store) = IdsOf(before)
    /\ store[last.target].content = "ca"

\* C3: download_file and remove_file raise FileNotFoundError exactly when no
\* entry of the listing in scope has the requested name, and then nothing is
\* fetched, written or changed.
C3_NotFoundExactly ==
    last.op \in {"download_file", "remove_file"}
    => /\ (last.outcome = "FileNotFoundError") <=> (Candidates(last) = {})
       /\ last.outcome = "FileNotFoundError"
          => /\ store = before
             /\ last.target = 0
             /\ last.dest = None
             /\ last.mimetype = None
             /\ last.bytes = None

\* A download from "shared with me" of a name the store holds in the folder
\* passed, but not among the shared entries.
C3_Witness ==
    /\ last.op = "download_file"
    /\ last.shared_with_me
    /\ last.outcome = "FileNotFoundError"
    /\ NamedIn(before, last.file_name, FolderOfArg(last.folder_arg)) # {}

\* C4: download_file takes the export format and the local name from the
\* matched entry's MIME type alone: document -> word-processing format and
\* ".docx", spreadsheet -> spreadsheet format and ".xlsx", presentation ->
\* presentation format and ".pptx", any other type -> no conversion and the
\* local name unchanged; the destination is data_dir joined with that name.
C4_DownloadFormat ==
    (last.op = "download_file" /\ last.outcome = "ok")
    => LET m == before[last.target].mimeType
           data == before[last.target].content
           local == last.data_dir \o "/" \o LocalNameOfDownload(last)
       IN /\ m = "application/vnd.google-apps.document"
             => /\ last.mimetype = "application/vnd.openxmlformats-officedocument.wordprocessingml.document"
                /\ last.dest = local \o ".docx"
          /\ m = "application/vnd.google-apps.spreadsheet"
             => /\ last.mimetype = "application/vnd.openxmlformats-officedocument.spreadsheetml.sheet"
                /\ last.dest = local \o ".xlsx"
          /\ m = "application/vnd.google-apps.presentation"
             => /\ last.mimetype = "application/vnd.openxmlformats-officedocument.presentationml.presentation"
                /\ last.dest = local \o ".pptx"
          /\ m \notin {"application/vnd.google-apps.document",
                       "application/vnd.google-apps.spreadsheet",
                       "application/vnd.google-apps.presentation"}
             => /\ last.mimetype = None
                /\ last.dest = local
                /\ last.bytes = [format |-> "raw", data |-> data]
          /\ last.mimetype # None
             => last.bytes = [format |-> last.mimetype, data |-> data]

\* A spreadsheet downloaded under a local name of the caller's.
C4_Witness ==
    /\ last.op = "download_file"
    /\ last.outcome = "ok"
    /\ before[last.target].mimeType = GSheet
    /\ last.local_arg = "x"
    /\ last.data_dir = "out"
    /\ last.dest = "out/x.xlsx"

\* C5: remove_file moves the matched entry to the trash and deletes nothing:
\* the entry is still in the store, trashed and otherwise as it was; no
\* listing of any call holds a trashed entry; no call removes an identifier
\* from the store or takes an entry out of the trash.
C5_TrashNotDelete ==
    /\ Len(store) >= Len(before)
    /\ \A i \in IdsOf(before) : before[i].trashed => store[i].trashed
    /\ \A i \in Range(last.file_list) : ~before[i].trashed
    /\ (last.op = "remove_file" /\ last.outcome = "ok")
       => /\ last.target \in IdsOf(store)
          /\ store[last.target] = [before[last.target] EXCEPT !.trashed = TRUE]

\* A listing of a folder after an entry of it went to the trash.
C5_Witness ==
    /\ last.op = "list_files"
    /\ ~last.shared_with_me
    /\ \E i \in IdsOf(store) :
          /\ store[i].trashed
          /\ store[i].parent = FolderOfArg(last.folder_arg)
          /\ i \notin Range(last.file_list)

\* C6: when entries of the listing in scope share the requested name,
\* upload_file, download_file and remove_file act on one with the latest
\* creation time among them, and on no other entry.
C6_LatestSelected ==
    (/\ last.op \in {"upload_file", "download_file", "remove_file"}
     /\ last.outcome = "ok"
     /\ Candidates(last) # {})
    => /\ last.target \in Candidates(last)
       /\ \A j \in Candidates(last) :
             before[j].createdDate <= before[last.target].createdDate
       /\ IdsOf(store) = IdsOf(before)
       /\ \A i \in IdsOf(before) \ {last.target} : store[i] = before[i]

\* A removal with an earlier entry of the same name in the folder.
C6_Witness ==
    /\ last.op = "remove_file"
    /\ last.outcome = "ok"
    /\ \E j \in Candidates(last) :
          before[j].createdDate < before[last.target].createdDate
    /\ store[last.target].trashed

\* C7: list_files without shared_with_me lists exactly the non-trashed
\* children of the folder ("root" when none or an empty one is given), each
\* once, latest creation first, and returns them, or, without
\* include_metadata, their names in the same order, duplicates kept.
C7_ListFiles ==
    (last.op = "list_files" /\ ~last.shared_with_me)
    => LET L == last.file_list
       IN /\ Range(L) = ChildrenOf(before, FolderOfArg(last.folder_arg))
          /\ Len(L) = Cardinality(Range(L))
          /\ \A i, j \in 1..Len(L) :
                i < j => before[L[i]].createdDate >= before[L[j]].createdDate
          /\ last.include_metadata => last.returned = L
          /\ ~last.include_metadata
             => /\ Len(last.returned) = Len(L)
                /\ \A k \in 1..Len(L) : last.returned[k] = before[L[k]].title

\* The names of a folder given as the empty string, with one name twice.
C7_Witness ==
    /\ last.op = "list_files"
    /\ ~last.shared_with_me
    /\ ~last.include_metadata
    /\ last.folder_arg = ""
    /\ Len(last.returned) = 2
    /\ last.returned[1] = last.returned[2]

\* C8: list_files, and download_file through it, sends one of two filters:
\* with shared_with_me "shared with me, not trashed" and no folder filter,
\* whatever folder was passed; without it "child of the folder, not
\* trashed".  The listing holds the entries of that filter and no other.
C8_OneOfTwoFilters ==
    last.op \in {"list_files", "download_file"}
    => /\ last.shared_with_me
          => /\ last.query.sharedWithMe
             /\ last.query.inParents = None
             /\ ~last.query.trashed
             /\ Range(last.file_list) = SharedIn(before)
       /\ ~last.shared_with_me
          => /\ ~last.query.sharedWithMe
             /\ last.query.inParents = FolderOfArg(last.folder_arg)
             /\ ~last.query.trashed
             /\ Range(last.file_list) = ChildrenOf(before, FolderOfArg(last.folder_arg))

\* A download from "shared with me" that finds its entry outside the folder
\* passed along.
C8_Witness ==
    /\ last.op = "download_file"
    /\ last.shared_with_me
    /\ last.outcome = "ok"
    /\ last.folder_arg = "F1"
    /\ before[last.target].parent = "root"

C10_RemoveExactlyOne ==
    LET n == NameOf(last)
        f == FolderOfArg(last.folder_arg)
        k == Cardinality(NamedIn(before, n, f))
    IN /\ (last.op = "remove_file" /\ last.outcome = "ok")
          => /\ k >= 1
             /\ ~before[last.target].trashed
             /\ store = [before EXCEPT ![last.target].trashed = TRUE]
             /\ Cardinality(NamedIn(store, n, f)) = k - 1
       /\ last.op = "remove_file"
          => (last.outcome = "FileNotFoundError" <=> k = 0)
       /\ (/\ last.op \in {"remove_file", "download_file"}
           /\ ~last.shared_with_me
           /\ k >= 1)
          => /\ last.outcome = "ok"
             /\ last.target \in NamedIn(before, n, f)
             /\ \A j \in NamedIn(before, n, f) :
                   before[j].createdDate <= before[last.target].createdDate
       /\ (UploadOk /\ k = 0)
          => /\ last.created
             /\ last.target \notin IdsOf(before)
             /\ \A i \in IdsOf(before) : store[i] = before[i]

\* A removal in a folder with two entries of the name: one is left.
C10_Witness ==
    /\ last.op = "remove_file"
    /\ last.outcome = "ok"
    /\ Cardinality(NamedIn(before, last.file_name, FolderOfArg(last.folder_arg))) = 2
    /\ Cardinality(NamedIn(store, last.file_name, FolderOfArg(last.folder_arg))) = 1

====
